---- MODULE Spec2Model ----
(***************************************************************************)
(* A model of download_books_name.py: the sitemap reader, the per-episode  *)
(* link extractor and title inferencer, the ASIN resolver, the generic     *)
(* title classifier, the deduplicator and the batch driver.                *)
(*                                                                         *)
(* Python strings are TLA+ strings; a character is a string of length 1.   *)
(* Positions are 1-based; a position p, 1 <= p <= Len(s)+1, stands between *)
(* the characters p-1 and p.  Python's None is the string NoneVal.         *)
(***************************************************************************)
EXTENDS Integers, Sequences, FiniteSets, TLC

(***************************************************************************)
(* Strings                                                                 *)
(***************************************************************************)
NoneVal == "None"

Char(s, i) == SubSeq(s, i, i)

UpperCase == "ABCDEFGHIJKLMNOPQRSTUVWXYZ"
LowerCase == "abcdefghijklmnopqrstuvwxyz"
Digits == {"0", "1", "2", "3", "4", "5", "6", "7", "8", "9"}
UpperSet == {Char(UpperCase, i) : i \in 1..26}
LowerSet == {Char(LowerCase, i) : i \in 1..26}
\* what \s matches and str.strip() removes
Whitespace == {" ", "\t", "\n", "\r", "\f"}

LowerMap == [c \in UpperSet |-> Char(LowerCase, CHOOSE i \in 1..26 : Char(UpperCase, i) = c)]
UpperMap == [c \in LowerSet |-> Char(UpperCase, CHOOSE i \in 1..26 : Char(LowerCase, i) = c)]
LowerChar(c) == IF c \in UpperSet THEN LowerMap[c] ELSE c
UpperChar(c) == IF c \in LowerSet THEN UpperMap[c] ELSE c

\* Recursion over the characters of a string halves the range, so that its depth
\* is the logarithm of the length.
\* The first (First) and the last (Last) i of lo..hi with flags[i]; hi + 1 and
\* lo - 1 when there is none.
RECURSIVE First(_, _, _)
First(flags, lo, hi) ==
    IF lo > hi THEN lo
    ELSE IF lo = hi THEN (IF flags[lo] THEN lo ELSE lo + 1)
    ELSE LET mid == (lo + hi) \div 2
             l == First(flags, lo, mid) IN
         IF l <= mid THEN l ELSE First(flags, mid + 1, hi)
RECURSIVE Last(_, _, _)
Last(flags, lo, hi) ==
    IF lo > hi THEN hi
    ELSE IF lo = hi THEN (IF flags[lo] THEN lo ELSE lo - 1)
    ELSE LET mid == (lo + hi) \div 2
             r == Last(flags, mid + 1, hi) IN
         IF r > mid THEN r ELSE Last(flags, lo, mid)

\* ''.join(strs[lo..hi])
RECURSIVE JoinRange(_, _, _)
JoinRange(strs, lo, hi) ==
    IF lo > hi THEN ""
    ELSE IF lo = hi THEN strs[lo]
    ELSE LET mid == (lo + hi) \div 2 IN JoinRange(strs, lo, mid) \o JoinRange(strs, mid + 1, hi)

\* str.lower()
Lower(s) == JoinRange([i \in 1..Len(s) |-> LowerChar(Char(s, i))], 1, Len(s))

\* the first position from i on that holds no whitespace
LStripPos(s, i) == First([k \in 1..Len(s) |-> Char(s, k) \notin Whitespace], i, Len(s))
RStripPos(s, j) == Last([k \in 1..Len(s) |-> Char(s, k) \notin Whitespace], 1, j)
\* str.strip()
Strip(s) == SubSeq(s, LStripPos(s, 1), RStripPos(s, Len(s)))

(***************************************************************************)
(* Regular expressions, as the re module matches them: a pattern is a      *)
(* sequence of elements, matched left to right with backtracking, a greedy *)
(* quantifier trying the longest run first and an alternation trying its   *)
(* branches in the order written.                                          *)
(***************************************************************************)
Lit(s) == [t |-> "lit", s |-> s]
\* a character class repeated between min and max times (max = -1: unbounded)
Cls(neg, set, min, max) == [t |-> "cls", neg |-> neg, set |-> set, min |-> min, max |-> max]
\* an alternation of literals, among them "" for an optional part
Alt(a) == [t |-> "alt", a |-> a]
Bol == [t |-> "bol"]
Eol == [t |-> "eol"]

InClass(c, e) == (c \in e.set) # e.neg

LitAt(text, p, s, ic) ==
    /\ p + Len(s) - 1 <= Len(text)
    /\ IF ic THEN Lower(SubSeq(text, p, p + Len(s) - 1)) = Lower(s)
             ELSE SubSeq(text, p, p + Len(s) - 1) = s

\* the length of the longest run of characters of the class e from p on, at most e.max
RunLen(text, p, e) ==
    LET hi == IF e.max # -1 /\ p + e.max - 1 < Len(text) THEN p + e.max - 1 ELSE Len(text) IN
    First([q \in 1..Len(text) |-> ~InClass(Char(text, q), e)], p, hi) - p

NoMatch == [ok |-> FALSE, ends |-> <<>>]
Then(q, r) == IF r.ok THEN [ok |-> TRUE, ends |-> <<q>> \o r.ends] ELSE NoMatch

\* ends[k] is the position after element k of the pattern
RECURSIVE MatchFrom(_, _, _, _, _), TryCount(_, _, _, _, _, _, _), TryAlt(_, _, _, _, _, _)
MatchFrom(pat, k, text, p, ic) ==
    IF k > Len(pat) THEN [ok |-> TRUE, ends |-> <<>>]
    ELSE LET e == pat[k] IN
         CASE e.t = "lit" ->
                IF LitAt(text, p, e.s, ic)
                THEN Then(p + Len(e.s), MatchFrom(pat, k + 1, text, p + Len(e.s), ic))
                ELSE NoMatch
           [] e.t = "bol" ->
                IF p = 1 THEN Then(p, MatchFrom(pat, k + 1, text, p, ic)) ELSE NoMatch
           [] e.t = "eol" ->
                IF p = Len(text) + 1 \/ (p = Len(text) /\ Char(text, p) = "\n")
                THEN Then(p, MatchFrom(pat, k + 1, text, p, ic)) ELSE NoMatch
           [] e.t = "cls" -> TryCount(pat, k, text, p, ic, e.min, RunLen(text, p, e))
           [] e.t = "alt" -> TryAlt(pat, k, text, p, ic, 1)

\* the match with the greatest count n in lo..hi of characters given to element k
TryCount(pat, k, text, p, ic, lo, hi) ==
    IF lo > hi THEN NoMatch
    ELSE IF lo = hi THEN Then(p + lo, MatchFrom(pat, k + 1, text, p + lo, ic))
    ELSE LET mid == (lo + hi) \div 2
             r == TryCount(pat, k, text, p, ic, mid + 1, hi) IN
         IF r.ok THEN r ELSE TryCount(pat, k, text, p, ic, lo, mid)

TryAlt(pat, k, text, p, ic, j) ==
    IF j > Len(pat[k].a) THEN NoMatch
    ELSE LET s == pat[k].a[j]
             r == IF LitAt(text, p, s, ic)
                  THEN MatchFrom(pat, k + 1, text, p + Len(s), ic) ELSE NoMatch IN
         IF r.ok THEN Then(p + Len(s), r) ELSE TryAlt(pat, k, text, p, ic, j + 1)

NoFind == [ok |-> FALSE, start |-> 0, ends |-> <<>>]
\* re.match
ReMatch(pat, text, ic) ==
    LET r == MatchFrom(pat, 1, text, 1, ic) IN
    IF r.ok THEN [ok |-> TRUE, start |-> 1, ends |-> r.ends] ELSE NoFind

\* the match with the least start in lo..hi
RECURSIVE SearchIn(_, _, _, _, _)
SearchIn(pat, text, lo, hi, ic) ==
    IF lo > hi THEN NoFind
    ELSE IF lo = hi
         THEN LET r == MatchFrom(pat, 1, text, lo, ic) IN
              IF r.ok THEN [ok |-> TRUE, start |-> lo, ends |-> r.ends] ELSE NoFind
    ELSE LET mid == (lo + hi) \div 2
             l == SearchIn(pat, text, lo, mid, ic) IN
         IF l.ok THEN l ELSE SearchIn(pat, text, mid + 1, hi, ic)
SearchFrom(pat, text, p, ic) == SearchIn(pat, text, p, Len(text) + 1, ic)
\* re.search: the leftmost match
ReSearch(pat, text, ic) == SearchFrom(pat, text, 1, ic)

\* the text matched by elements a..b of the pattern
Group(text, m, a, b) ==
    SubSeq(text, IF a = 1 THEN m.start ELSE m.ends[a - 1], m.ends[b] - 1)
MatchEnd(m) == IF m.ends = <<>> THEN m.start ELSE m.ends[Len(m.ends)]

\* re.findall with the group that elements a..b make: the matches left to right,
\* not overlapping
RECURSIVE FindAllFrom(_, _, _, _, _)
FindAllFrom(pat, text, p, a, b) ==
    LET m == SearchFrom(pat, text, p, FALSE) IN
    IF ~m.ok THEN <<>>
    ELSE <<Group(text, m, a, b)>>
         \o FindAllFrom(pat, text, IF MatchEnd(m) = m.start THEN m.start + 1 ELSE MatchEnd(m), a, b)
ReFindAll(pat, text, a, b) == FindAllFrom(pat, text, 1, a, b)

\* re.sub(r'\s+', ' ', s): the first character of a run of whitespace becomes a
\* blank, the others of the run vanish
CollapseWs(s) ==
    JoinRange([i \in 1..Len(s) |->
                 IF Char(s, i) \notin Whitespace THEN Char(s, i)
                 ELSE IF i > 1 /\ Char(s, i - 1) \in Whitespace THEN "" ELSE " "], 1, Len(s))

\* re.sub(lit, by, s) for a literal pattern
RECURSIVE ReplaceFrom(_, _, _, _)
ReplaceFrom(s, lit, by, i) ==
    LET m == SearchFrom(<<Lit(lit)>>, s, i, FALSE) IN
    IF ~m.ok THEN SubSeq(s, i, Len(s))
    ELSE SubSeq(s, i, m.start - 1) \o by \o ReplaceFrom(s, lit, by, MatchEnd(m))
Replace(s, lit, by) == ReplaceFrom(s, lit, by, 1)

\* re.split on a class of single characters
RECURSIVE SplitFrom(_, _, _)
SplitFrom(s, seps, from) ==
    LET q == First([k \in 1..Len(s) |-> Char(s, k) \in seps], from, Len(s)) IN
    IF q > Len(s) THEN <<SubSeq(s, from, Len(s))>>
    ELSE <<SubSeq(s, from, q - 1)>> \o SplitFrom(s, seps, q + 1)
Split(s, seps) == SplitFrom(s, seps, 1)

(***************************************************************************)
(* extract_asin                                                            *)
(***************************************************************************)
AsinClass == UpperSet \cup Digits
Asin10 == Cls(FALSE, AsinClass, 10, 10)
asin_patterns == <<
    <<Lit("/dp/"), Asin10>>,
    <<Lit("/gp/product/"), Asin10>>,
    <<Lit("/product/"), Asin10>>,
    <<Lit("amazon."), Cls(TRUE, {"/"}, 1, -1), Lit("/"), Asin10, Lit("/")>> >>
\* the index in the pattern of the element the group captures
asin_group == <<2, 2, 2, 4>>

RECURSIVE extract_asin_from(_, _)
extract_asin_from(amazon_url, k) ==
    IF k > Len(asin_patterns) THEN NoneVal
    ELSE LET m == ReSearch(asin_patterns[k], amazon_url, FALSE) IN
         IF m.ok THEN Group(amazon_url, m, asin_group[k], asin_group[k])
         ELSE extract_asin_from(amazon_url, k + 1)
\* a variant that tries the bare-domain shape before the three others
extract_asin_bare_first(amazon_url) ==
    LET m == ReSearch(asin_patterns[4], amazon_url, FALSE) IN
    IF m.ok THEN Group(amazon_url, m, asin_group[4], asin_group[4])
    ELSE extract_asin_from(amazon_url, 1)
extract_asin(amazon_url) == extract_asin_from(amazon_url, 1)

(***************************************************************************)
(* is_generic_title                                                        *)
(***************************************************************************)
Ws1 == Cls(FALSE, Whitespace, 1, -1)
generic_patterns == <<
    <<Bol, Lit("amazon"), Ws1, Lit("book"), Ws1, Lit("link"), Eol>>,
    <<Bol, Lit("buy"), Ws1, Lit("here"), Eol>>,
    <<Bol, Lit("on"), Ws1, Lit("amazon"), Eol>>,
    <<Bol, Lit("here"), Eol>>,
    <<Bol, Cls(FALSE, Digits, 1, -1), Eol>>,
    <<Bol, Lit("click"), Ws1, Lit("here"), Eol>>,
    <<Bol, Lit("link"), Eol>>,
    <<Bol, Lit("book"), Eol>>,
    <<Bol, Lit("amazon"), Eol>>,
    <<Lit("amazon"), Ws1, Lit("link")>> >>

is_generic_title(title) ==
    LET title_lower == Strip(Lower(title)) IN
    \/ \E k \in 1..Len(generic_patterns) : ReMatch(generic_patterns[k], title_lower, FALSE).ok
    \/ Len(title_lower) < 5

(***************************************************************************)
(* Ordering of strings, as Python compares them: by code point.            *)
(***************************************************************************)
\* the characters of code 32..95 and of code 97..126
AsciiLow == " !\"#$%&'()*+,-./0123456789:;<=>?@ABCDEFGHIJKLMNOPQRSTUVWXYZ[\\]^_"
AsciiHigh == "abcdefghijklmnopqrstuvwxyz{|}~"
AsciiSet == {Char(AsciiLow, i) : i \in 1..Len(AsciiLow)} \cup {Char(AsciiHigh, i) : i \in 1..Len(AsciiHigh)}
OrdMap == [c \in AsciiSet |->
             IF \E i \in 1..Len(AsciiLow) : Char(AsciiLow, i) = c
             THEN 31 + CHOOSE i \in 1..Len(AsciiLow) : Char(AsciiLow, i) = c
             ELSE 96 + CHOOSE i \in 1..Len(AsciiHigh) : Char(AsciiHigh, i) = c]
Ord(c) == CASE c = "\t" -> 9 [] c = "\n" -> 10 [] c = "\f" -> 12 [] c = "\r" -> 13
            [] OTHER -> OrdMap[c]

StrLess(a, b) ==
    LET n == IF Len(a) < Len(b) THEN Len(a) ELSE Len(b)
        d == First([i \in 1..n |-> Char(a, i) # Char(b, i)], 1, n) IN
    IF d > n THEN Len(a) < Len(b) ELSE Ord(Char(a, d)) < Ord(Char(b, d))
StrLeq(a, b) == a = b \/ StrLess(a, b)

\* int() of a string of digits
DigitVal(c) == Ord(c) - 48
RECURSIVE StrToIntFrom(_, _, _)
StrToIntFrom(s, i, acc) ==
    IF i > Len(s) THEN acc ELSE StrToIntFrom(s, i + 1, 10 * acc + DigitVal(Char(s, i)))
StrToInt(s) == StrToIntFrom(s, 1, 0)

Range(f) == {f[i] : i \in DOMAIN f}
\* the orders in which a set can be iterated
RECURSIVE Perms(_)
Perms(S) ==
    IF S = {} THEN {<<>>}
    ELSE UNION {{<<x>> \o q : q \in Perms(S \ {x})} : x \in S}

\* list.sort(key=...): stable, ascending.  The sort is an insertion sort of the
\* indices, le[i][j] saying that the key of element i is at most that of element j.
RECURSIVE InsertSorted(_, _, _)
InsertSorted(sorted, x, le) ==
    IF sorted = <<>> THEN <<x>>
    ELSE LET last == sorted[Len(sorted)] IN
         IF le[last][x] THEN Append(sorted, x)
         ELSE Append(InsertSorted(SubSeq(sorted, 1, Len(sorted) - 1), x, le), last)
RECURSIVE SortedIndices(_, _, _, _)
SortedIndices(n, i, acc, le) ==
    IF i > n THEN acc ELSE SortedIndices(n, i + 1, InsertSorted(acc, i, le), le)
StableSort(seq, le) ==
    LET idx == SortedIndices(Len(seq), 1, <<>>, le) IN
    [k \in DOMAIN seq |-> seq[idx[k]]]

(***************************************************************************)
(* fetch_and_extract_books, from the markup that the fetch returned        *)
(***************************************************************************)
AmazonDomains == <<"www.amazon.in", "www.amazon.com", "amazon.in", "amazon.com",
                   "amzn.in", "amzn.to", "a.co">>
amzn_pattern == <<Lit("http"), Alt(<<"s", "">>), Lit("://"), Alt(AmazonDomains), Lit("/"),
                  Cls(TRUE, Whitespace \cup {"<", ">", "\"", "&"}, 1, -1)>>
google_redirect_pattern == <<Lit("https://www.google.com/url?q="),
                  Lit("http"), Alt(<<"s", "">>), Lit("://"), Alt(AmazonDomains), Lit("/"),
                  Cls(TRUE, {"&"}, 1, -1)>>
context_pattern(link) == <<Cls(TRUE, {"<", ">"}, 0, 200), Lit(link), Cls(TRUE, {"<", ">"}, 0, 200)>>
Quote == {"\"", "'"}
title_pattern(link) == <<Lit("<a"), Cls(TRUE, {">"}, 0, -1), Lit("href="), Cls(FALSE, Quote, 1, 1),
                  Cls(TRUE, Quote, 0, -1), Lit(link), Cls(TRUE, Quote, 0, -1),
                  Cls(FALSE, Quote, 1, 1), Cls(TRUE, {">"}, 0, -1), Lit(">"),
                  Cls(TRUE, {"<"}, 1, -1), Lit("</a>")>>
tag_pattern == <<Lit("<"), Cls(TRUE, {">"}, 1, -1), Lit(">")>>
Placeholder == "Amazon Book Link"

\* re.sub(r'<[^>]+>', '', s)
RECURSIVE StripTagsFrom(_, _)
StripTagsFrom(s, p) ==
    LET m == SearchFrom(tag_pattern, s, p, FALSE) IN
    IF ~m.ok THEN SubSeq(s, p, Len(s))
    ELSE SubSeq(s, p, m.start - 1) \o StripTagsFrom(s, MatchEnd(m))
StripTags(s) == StripTagsFrom(s, 1)

\* for part in reversed(parts): the first one, stripped, of a length in 11..199
RECURSIVE last_meaningful(_, _)
last_meaningful(parts, i) ==
    IF i < 1 THEN Placeholder
    ELSE LET part == Strip(parts[i]) IN
         IF Len(part) > 10 /\ Len(part) < 200 THEN part ELSE last_meaningful(parts, i - 1)

anchor_title(html_content, link) ==
    LET title_match == ReSearch(title_pattern(link), html_content, TRUE) IN
    Replace(Strip(CollapseWs(Group(html_content, title_match, 11, 11))), "&nbsp;", " ")

nearby_title(before) ==
    LET before_clean == Strip(CollapseWs(StripTags(before))) IN
    IF Len(before_clean) > 10
    THEN LET parts == Split(before_clean, {".", "!", "?", ";", ",", "\n"}) IN
         last_meaningful(parts, Len(parts))
    ELSE Placeholder

title_for_link(html_content, link) ==
    LET context_match == ReSearch(context_pattern(link), html_content, FALSE) IN
    IF context_match.ok
    THEN IF ReSearch(title_pattern(link), html_content, TRUE).ok
         THEN anchor_title(html_content, link)
         ELSE nearby_title(Group(html_content, context_match, 1, 1))
    ELSE Placeholder

amzn_matches(html_content) == ReFindAll(amzn_pattern, html_content, 1, 6)
google_matches(html_content) == ReFindAll(google_redirect_pattern, html_content, 2, 7)
\* set(amzn_matches + google_matches)
link_set(html_content) == Range(amzn_matches(html_content) \o google_matches(html_content))

\* for link in all_links: the title and the link of every book, for every order in
\* which list(set(...)) can hold the links
titled_links(html_content) ==
    {[i \in DOMAIN all_links |->
        [title |-> title_for_link(html_content, all_links[i]), link |-> all_links[i]]]
        : all_links \in Perms(link_set(html_content))}

book_data(titled, episode_info) ==
    [title |-> titled.title, link |-> titled.link,
     episode_num |-> episode_info.episode_num, episode_title |-> episode_info.title,
     episode_date |-> episode_info.date, episode_url |-> episode_info.url]

TitleLeq(a, b) == StrLeq(a.title, b.title)
\* a variant that leaves the books in the order of the loop
sort_by_title_not(books) == books
\* books.sort(key=lambda x: x['title'])
sort_by_title(books) ==
    StableSort(books, [i \in DOMAIN books |-> [j \in DOMAIN books |->
                          TitleLeq(books[i], books[j])]])

(***************************************************************************)
(* fetch_sitemap: one <url> element of the document                        *)
(***************************************************************************)
episode_pattern == <<Lit("/episodes/"), Cls(FALSE, Digits, 4, 4), Lit("/"),
                     Cls(FALSE, Digits, 1, 2), Lit("/"), Cls(FALSE, Digits, 1, 2), Lit("/"),
                     Lit("episode-"), Cls(FALSE, Digits, 1, -1), Lit("-"),
                     Cls(TRUE, {"/"}, 1, -1), Lit("/")>>
slug_pattern == <<Lit("episode-"), Cls(FALSE, Digits, 1, -1), Lit("-"), Cls(TRUE, {"\n"}, 1, -1)>>

Letters == UpperSet \cup LowerSet
\* str.title(): a letter is upper case after a character that is no letter, lower
\* case after a letter
TitleCase(s) ==
    JoinRange([i \in 1..Len(s) |->
                 IF Char(s, i) \notin Letters THEN Char(s, i)
                 ELSE IF i > 1 /\ Char(s, i - 1) \in Letters
                      THEN LowerChar(Char(s, i)) ELSE UpperChar(Char(s, i))], 1, Len(s))
\* str.zfill(2) of a string of digits
zfill2(s) == IF Len(s) < 2 THEN "0" \o s ELSE s

\* The descriptors that the element adds to the list: one or none.
episode_of(url) ==
    LET match == ReSearch(episode_pattern, url, FALSE) IN
    IF ~match.ok THEN <<>>
    ELSE LET year == Group(url, match, 2, 2)
             month == Group(url, match, 4, 4)
             day == Group(url, match, 6, 6)
             slug == Group(url, match, 8, 11)
             slug_match == ReMatch(slug_pattern, slug, FALSE) IN
         IF ~slug_match.ok THEN <<>>
         ELSE << [url |-> url, year |-> year, month |-> zfill2(month), day |-> zfill2(day),
                  episode_num |-> Group(slug, slug_match, 2, 2),
                  title |-> TitleCase(Replace(Group(slug, slug_match, 4, 4), "-", " ")),
                  date |-> year \o "-" \o zfill2(month) \o "-" \o zfill2(day)] >>

EpisodeNumLeq(a, b) == StrToInt(a.episode_num) <= StrToInt(b.episode_num)
\* episodes.sort(key=lambda x: int(x['episode_num']))
sort_episodes(eps) ==
    StableSort(eps, [i \in DOMAIN eps |-> [j \in DOMAIN eps |->
                        EpisodeNumLeq(eps[i], eps[j])]])

(***************************************************************************)
(* The links and the titles of the model, and what extract_asin and        *)
(* is_generic_title return for them, computed once.                        *)
(***************************************************************************)
LinkDp == "https://www.amazon.in/dp/B0ABCDEFGH"
LinkGp == "https://www.amazon.com/gp/product/B0ABCDEFGH"
LinkOther == "https://www.amazon.in/Homo-Deus/dp/1784703931"
LinkShort == "https://amzn.in/XYZ1234567"
Links == {LinkDp, LinkGp, LinkOther, LinkShort}
SampleTitles == {Placeholder, "Sapiens", "Sapiens: A Brief History"}
AsinTable == [link \in Links |-> extract_asin(link)]
QuotedTitle == "The \"Idea\" of India"
GenericTable == [title \in SampleTitles \cup {QuotedTitle} |-> is_generic_title(title)]
asin_of(link) == IF link \in Links THEN AsinTable[link] ELSE extract_asin(link)
generic(title) ==
    IF title \in DOMAIN GenericTable THEN GenericTable[title] ELSE is_generic_title(title)

(***************************************************************************)
(* deduplicate_books: one iteration of the loop.  asin_map is the dict, as *)
(* the sequence of its values in the order of insertion.                   *)
(***************************************************************************)
\* the index of the key in the dict, 0 when it is not in it
lookup(asin_map, asin) ==
    IF \E k \in DOMAIN asin_map : asin_map[k].asin = asin
    THEN CHOOSE k \in DOMAIN asin_map : asin_map[k].asin = asin ELSE 0

\* book.get(key): None when the occurrence has no such key
get(book, key) == IF key \in DOMAIN book THEN book[key] ELSE NoneVal
provenance(book) ==
    [episode_num |-> get(book, "episode_num"), episode_title |-> get(book, "episode_title"),
     episode_date |-> get(book, "episode_date"), episode_url |-> get(book, "episode_url")]

\* a variant that overwrites the title with every title that is not generic
dedup_step_overwrite(st, book) ==
    LET asin == asin_of(book.link) IN
    IF asin # NoneVal /\ asin # ""
    THEN LET map1 == IF lookup(st.asin_map, asin) = 0
                     THEN Append(st.asin_map, [asin |-> asin, title |-> book.title,
                                               link |-> book.link, episodes |-> <<>>])
                     ELSE st.asin_map
             k == lookup(map1, asin)
             map2 == [map1 EXCEPT ![k].episodes = Append(@, provenance(book))]
             map3 == IF ~generic(book.title)
                     THEN [map2 EXCEPT ![k].title = book.title] ELSE map2 IN
         [st EXCEPT !.asin_map = map3]
    ELSE [st EXCEPT !.books_without_asin = Append(@, book)]

\* a variant whose dict is keyed by the link
dedup_step_by_link(st, book) ==
    LET asin == asin_of(book.link)
        found == IF \E j \in DOMAIN st.asin_map : st.asin_map[j].link = book.link
                 THEN CHOOSE j \in DOMAIN st.asin_map : st.asin_map[j].link = book.link ELSE 0 IN
    IF asin # NoneVal /\ asin # ""
    THEN LET map1 == IF found = 0
                     THEN Append(st.asin_map, [asin |-> asin, title |-> book.title,
                                               link |-> book.link, episodes |-> <<>>])
                     ELSE st.asin_map
             k == IF found = 0 THEN Len(map1) ELSE found
             map2 == [map1 EXCEPT ![k].episodes = Append(@, provenance(book))]
             map3 == IF generic(map2[k].title) /\ ~generic(book.title)
                     THEN [map2 EXCEPT ![k].title = book.title] ELSE map2 IN
         [st EXCEPT !.asin_map = map3]
    ELSE [st EXCEPT !.books_without_asin = Append(@, book)]

\* a variant that records an episode once for a book
dedup_step_once(st, book) ==
    LET asin == asin_of(book.link) IN
    IF asin # NoneVal /\ asin # ""
    THEN LET map1 == IF lookup(st.asin_map, asin) = 0
                     THEN Append(st.asin_map, [asin |-> asin, title |-> book.title,
                                               link |-> book.link, episodes |-> <<>>])
                     ELSE st.asin_map
             k == lookup(map1, asin)
             map2 == IF \E j \in DOMAIN map1[k].episodes : map1[k].episodes[j] = provenance(book)
                     THEN map1
                     ELSE [map1 EXCEPT ![k].episodes = Append(@, provenance(book))]
             map3 == IF generic(map2[k].title) /\ ~generic(book.title)
                     THEN [map2 EXCEPT ![k].title = book.title] ELSE map2 IN
         [st EXCEPT !.asin_map = map3]
    ELSE [st EXCEPT !.books_without_asin = Append(@, book)]

\* a variant that keeps one occurrence for each link without an identifier
dedup_step_merge_plain(st, book) ==
    LET asin == asin_of(book.link) IN
    IF asin # NoneVal /\ asin # ""
    THEN LET map1 == IF lookup(st.asin_map, asin) = 0
                     THEN Append(st.asin_map, [asin |-> asin, title |-> book.title,
                                               link |-> book.link, episodes |-> <<>>])
                     ELSE st.asin_map
             k == lookup(map1, asin)
             map2 == [map1 EXCEPT ![k].episodes = Append(@, provenance(book))]
             map3 == IF generic(map2[k].title) /\ ~generic(book.title)
                     THEN [map2 EXCEPT ![k].title = book.title] ELSE map2 IN
         [st EXCEPT !.asin_map = map3]
    ELSE IF \E j \in DOMAIN st.books_without_asin : st.books_without_asin[j].link = book.link
         THEN st
         ELSE [st EXCEPT !.books_without_asin = Append(@, book)]

dedup_step(st, book) ==
    LET asin == asin_of(book.link) IN
    \* if asin: neither None nor the empty string
    IF asin # NoneVal /\ asin # ""
    THEN LET map1 == IF lookup(st.asin_map, asin) = 0
                     THEN Append(st.asin_map, [asin |-> asin, title |-> book.title,
                                               link |-> book.link, episodes |-> <<>>])
                     ELSE st.asin_map
             k == lookup(map1, asin)
             map2 == [map1 EXCEPT ![k].episodes = Append(@, provenance(book))]
             map3 == IF generic(map2[k].title) /\ ~generic(book.title)
                     THEN [map2 EXCEPT ![k].title = book.title] ELSE map2 IN
         [st EXCEPT !.asin_map = map3]
    ELSE [st EXCEPT !.books_without_asin = Append(@, book)]

(***************************************************************************)
(* generate_csv for a deduplicated list: the rows of the two views         *)
(***************************************************************************)
csv_quote(s) == Replace(s, "\"", "\"\"")
RECURSIVE join_nums(_, _)
join_nums(eps, i) ==
    IF i > Len(eps) THEN ""
    ELSE LET rest == join_nums(eps, i + 1) IN
         IF eps[i].episode_num = NoneVal \/ eps[i].episode_num = "" THEN rest
         ELSE IF rest = "" THEN eps[i].episode_num ELSE eps[i].episode_num \o ";" \o rest
unique_rows(books) ==
    [i \in DOMAIN books |->
        [asin |-> books[i].asin, title |-> csv_quote(books[i].title),
         link |-> csv_quote(books[i].link), episode_count |-> Len(books[i].episodes),
         episode_nums |-> join_nums(books[i].episodes, 1)]]
RECURSIVE expanded_rows(_, _)
expanded_rows(books, i) ==
    IF i > Len(books) THEN <<>>
    ELSE [j \in DOMAIN books[i].episodes |->
            [episode_num |-> books[i].episodes[j].episode_num,
             episode_title |-> csv_quote(books[i].episodes[j].episode_title),
             episode_date |-> books[i].episodes[j].episode_date,
             asin |-> books[i].asin, title |-> csv_quote(books[i].title),
             link |-> csv_quote(books[i].link),
             episode_url |-> csv_quote(books[i].episodes[j].episode_url)]]
         \o expanded_rows(books, i + 1)
\* episode.get('episode_title', '').replace(...) and the same for episode_url: the
\* key is there, so the default is not used, and None has no replace
expanded_raises(books) ==
    \E i \in DOMAIN books : \E j \in DOMAIN books[i].episodes :
        \/ books[i].episodes[j].episode_title = NoneVal
        \/ books[i].episodes[j].episode_url = NoneVal
\* What generate_csv writes and whether it raises.  The unique view is written
\* before the rows of the expanded view are built; an exception in building them
\* leaves the expanded view unwritten.
generate_csv(books) ==
    IF books = <<>> THEN [unique |-> <<>>, expanded |-> <<>>, raised |-> FALSE]
    ELSE IF expanded_raises(books)
         THEN [unique |-> unique_rows(books), expanded |-> <<>>, raised |-> TRUE]
         ELSE [unique |-> unique_rows(books), expanded |-> expanded_rows(books, 1),
               raised |-> FALSE]

(***************************************************************************)
(* The inputs of the model                                                 *)
(***************************************************************************)
\* bounds
MaxUrls == 3
MaxEpisodes == 3
MaxBooks == 3
MaxHalf == 2
MaxSegments == 2
MaxWords == 2

\* the driver's configuration
BATCH_SIZE == 500
START_INDEX == 0

RECURSIVE SeqsUpTo(_, _)
SeqsUpTo(S, n) ==
    IF n = 0 THEN {<<>>}
    ELSE LET shorter == SeqsUpTo(S, n - 1) IN
         shorter \cup {Append(q, x) : q \in {r \in shorter : Len(r) = n - 1}, x \in S}

Url9 == "https://seenunseen.in/episodes/2018/3/5/episode-9-the-gst-story/"
Url10 == "https://seenunseen.in/episodes/2018/3/12/episode-10-farm-loans/"
UrlAbout == "https://seenunseen.in/about/"
\* a <url> without <loc>, a <loc> without text, and three <loc> with a text
UrlElements == {[loc |-> FALSE, text |-> NoneVal], [loc |-> TRUE, text |-> NoneVal],
                [loc |-> TRUE, text |-> UrlAbout], [loc |-> TRUE, text |-> Url9],
                [loc |-> TRUE, text |-> Url10]}

\* Two links, the one found first with the title that sorts last.
PageTwo == "<p><a href=\"" \o LinkDp \o "\">Sapiens</a> and <a href=\"" \o LinkOther \o "\">Homo Deus</a></p>"
\* Two links of one identifier with one title, and a link without a title.
PageTie == "<a href=\"" \o LinkDp \o "\">Sapiens</a><a href=\"" \o LinkGp \o "\">Sapiens</a> " \o LinkShort
PageNone == "<p>No books in this episode.</p>"
Pages == {PageTwo, PageTie, PageNone}

\* titled_links of the pages above, computed once
PageTable == [html \in Pages |-> titled_links(html)]

\* The lists fetch_and_extract_books can return for a page that it could fetch.
extract_books(html_content, episode_info) ==
    {sort_by_title([i \in DOMAIN titled |-> book_data(titled[i], episode_info)])
        : titled \in IF html_content \in Pages THEN PageTable[html_content]
                     ELSE titled_links(html_content)}

Episodes == {episode_of(Url9)[1], episode_of(Url10)[1]}
\* The occurrences given to deduplicate_books alone: every link with every title,
\* the links of the pages of one episode each.
Occurrences ==
    {[title |-> t, link |-> l, episode_num |-> e.episode_num, episode_title |-> e.title,
      episode_date |-> e.date, episode_url |-> e.url]
        : t \in SampleTitles,
          l \in Links, e \in Episodes}
DedupInputs == {b \in Occurrences : (b.episode_num = "9") <=> (b.link \in {LinkDp, LinkShort})}

VARIABLES
    pc,                 \* where the program is
    response,           \* the sitemap as fetched and parsed: [ok, urls]
    sm_i,               \* fetch_sitemap: the <url> elements handled
    sm_episodes,        \* fetch_sitemap: its list episodes
    sm_raised,          \* fetch_sitemap: its except branch ran
    episodes,           \* the list of episode descriptors
    start_idx, batch_size,
    idx,                \* process_episodes_batch: its loop variable
    all_books,          \* the occurrences gathered
    requests,           \* the episode pages requested: the urls, in order
    fetched,            \* what every request returned: [ok, html, books]
    di,                 \* deduplicate_books: the occurrences consumed
    dedup,              \* deduplicate_books: [asin_map, books_without_asin]
    unique_books, books_without_asin,   \* what deduplicate_books returned
    csv,                \* the views written: [unique, expanded]
    arg, ret            \* the argument and the result of a function called alone

vars == <<pc, response, sm_i, sm_episodes, sm_raised, episodes, start_idx, batch_size, idx,
          all_books, requests, fetched, di, dedup, unique_books, books_without_asin, csv,
          arg, ret>>
sitemap_vars == <<response, sm_i, sm_episodes, sm_raised>>
batch_vars == <<start_idx, batch_size, idx, requests, fetched>>
dedup_vars == <<di, dedup, unique_books, books_without_asin>>
call_vars == <<arg, ret>>

NoDedup == [asin_map |-> <<>>, books_without_asin |-> <<>>]
NoCsv == [unique |-> <<>>, expanded |-> <<>>]
NoResponse == [ok |-> FALSE, urls |-> <<>>]

\* everything but pc, before the program has run
Blank ==
    /\ response = NoResponse /\ sm_i = 0 /\ sm_episodes = <<>> /\ sm_raised = FALSE
    /\ episodes = <<>> /\ start_idx = 0 /\ batch_size = 0 /\ idx = 0
    /\ all_books = <<>> /\ requests = <<>> /\ fetched = <<>>
    /\ di = 0 /\ dedup = NoDedup /\ unique_books = <<>> /\ books_without_asin = <<>>
    /\ csv = NoCsv /\ arg = "" /\ ret = NoneVal

(***************************************************************************)
(* fetch_sitemap                                                           *)
(***************************************************************************)
\* urlopen, read, decode and ET.fromstring: they raise, or give the <url> elements
SitemapFetch ==
    /\ pc = "fetch_sitemap"
    /\ \/ /\ response' = NoResponse
          /\ sm_raised' = TRUE
          /\ episodes' = <<>>
          /\ pc' = "main_check"
          /\ UNCHANGED <<sm_i, sm_episodes>>
       \/ /\ \E urls \in SeqsUpTo(UrlElements, MaxUrls) : response' = [ok |-> TRUE, urls |-> urls]
          /\ sm_i' = 0 /\ sm_episodes' = <<>>
          /\ pc' = "sitemap_loop"
          /\ UNCHANGED <<sm_raised, episodes>>
    /\ UNCHANGED <<batch_vars, dedup_vars, call_vars, all_books, csv>>

\* what the except branch returns
sitemap_except_partial(collected) == collected
sitemap_except(collected) == <<>>

\* one <url> element: for url_element in root.findall('ns:url', namespaces)
SitemapElement ==
    /\ pc = "sitemap_loop"
    /\ sm_i < Len(response.urls)
    /\ LET el == response.urls[sm_i + 1] IN
       \/ /\ ~el.loc                       \* loc is None
          /\ sm_i' = sm_i + 1
          /\ UNCHANGED <<sm_episodes, sm_raised, episodes, pc>>
       \/ /\ el.loc /\ el.text = NoneVal   \* re.search(pattern, None) raises TypeError
          /\ sm_raised' = TRUE
          /\ episodes' = sitemap_except(sm_episodes)
          /\ sm_episodes' = <<>>
          /\ pc' = "main_check"
          /\ UNCHANGED sm_i
       \/ /\ el.loc /\ el.text # NoneVal
          /\ sm_episodes' = sm_episodes \o episode_of(el.text)
          /\ sm_i' = sm_i + 1
          /\ UNCHANGED <<sm_raised, episodes, pc>>
    /\ UNCHANGED <<response, batch_vars, dedup_vars, call_vars, all_books, csv>>

SitemapReturn ==
    /\ pc = "sitemap_loop"
    /\ sm_i = Len(response.urls)
    /\ episodes' = sort_episodes(sm_episodes)
    /\ sm_episodes' = <<>>
    /\ pc' = "main_check"
    /\ UNCHANGED <<response, sm_i, sm_raised, batch_vars, dedup_vars, call_vars, all_books, csv>>

(***************************************************************************)
(* __main__                                                                *)
(***************************************************************************)
\* if not episodes: exit(1); else process_episodes_batch(episodes, START_INDEX, BATCH_SIZE)
MainCheck ==
    /\ pc = "main_check"
    /\ \/ /\ episodes = <<>>
          /\ pc' = "exit"
          /\ UNCHANGED <<start_idx, batch_size, idx, all_books>>
       \/ /\ episodes # <<>>
          /\ start_idx' = START_INDEX /\ batch_size' = BATCH_SIZE
          /\ idx' = START_INDEX /\ all_books' = <<>>
          /\ pc' = "batch"
    /\ UNCHANGED <<sitemap_vars, episodes, requests, fetched, dedup_vars, call_vars, csv>>

(***************************************************************************)
(* process_episodes_batch                                                  *)
(***************************************************************************)
Min(a, b) == IF a < b THEN a ELSE b
end_idx == Min(start_idx + batch_size, Len(episodes))

\* a variant that keeps nothing of the episodes before a failed one
batch_extend_reset(books_so_far, books) == IF books # <<>> THEN books_so_far \o books ELSE <<>>
\* if books: all_books.extend(books)
batch_extend(books_so_far, books) == IF books # <<>> THEN books_so_far \o books ELSE books_so_far

\* One iteration: fetch_and_extract_books(episode['url'], episode), which returns []
\* when the fetch or the decoding raises.
BatchFetch ==
    /\ pc = "batch"
    /\ idx < end_idx
    /\ LET episode == episodes[idx + 1] IN
       /\ requests' = Append(requests, episode.url)
       /\ \/ /\ fetched' = Append(fetched, [ok |-> FALSE, html |-> "", books |-> <<>>])
             /\ all_books' = batch_extend(all_books, <<>>)
          \/ \E html \in Pages : \E books \in extract_books(html, episode) :
                /\ fetched' = Append(fetched, [ok |-> TRUE, html |-> html, books |-> books])
                /\ all_books' = batch_extend(all_books, books)
    /\ idx' = idx + 1
    /\ UNCHANGED <<pc, sitemap_vars, episodes, start_idx, batch_size, dedup_vars, call_vars, csv>>

BatchReturn ==
    /\ pc = "batch"
    /\ idx >= end_idx
    /\ pc' = "batch_done"
    /\ UNCHANGED <<sitemap_vars, episodes, batch_vars, all_books, dedup_vars, call_vars, csv>>

\* if all_books: deduplicate_books(all_books) ... else: nothing is written
MainDedup ==
    /\ pc = "batch_done"
    /\ \/ /\ all_books # <<>>
          /\ di' = 0 /\ dedup' = NoDedup
          /\ pc' = "dedup"
       \/ /\ all_books = <<>>
          /\ pc' = "done"
          /\ UNCHANGED <<di, dedup>>
    /\ UNCHANGED <<sitemap_vars, episodes, batch_vars, all_books, unique_books,
                   books_without_asin, call_vars, csv>>

(***************************************************************************)
(* deduplicate_books                                                       *)
(***************************************************************************)
DedupStep ==
    /\ pc = "dedup"
    /\ di < Len(all_books)
    /\ dedup' = dedup_step(dedup, all_books[di + 1])
    /\ di' = di + 1
    /\ UNCHANGED <<pc, sitemap_vars, episodes, batch_vars, all_books, unique_books,
                   books_without_asin, call_vars, csv>>

\* unique_books = list(asin_map.values()); return unique_books, books_without_asin
DedupReturn ==
    /\ pc = "dedup"
    /\ di = Len(all_books)
    /\ unique_books' = dedup.asin_map
    /\ books_without_asin' = dedup.books_without_asin
    /\ pc' = "dedup_done"
    /\ UNCHANGED <<sitemap_vars, episodes, batch_vars, all_books, di, dedup, call_vars, csv>>

\* generate_csv(unique_books): it returns at once for an empty list; an exception
\* that it raises ends the program
MainReport ==
    /\ pc = "dedup_done"
    /\ \E out \in {generate_csv(unique_books)} :
       /\ csv' = [unique |-> out.unique, expanded |-> out.expanded]
       /\ pc' = IF out.raised THEN "raised" ELSE "done"
    /\ UNCHANGED <<sitemap_vars, episodes, batch_vars, all_books, dedup_vars, call_vars>>

(***************************************************************************)
(* The program, and its functions called alone                             *)
(***************************************************************************)
Init == pc = "fetch_sitemap" /\ Blank
Next ==
    \/ SitemapFetch \/ SitemapElement \/ SitemapReturn \/ MainCheck
    \/ BatchFetch \/ BatchReturn \/ MainDedup \/ DedupStep \/ DedupReturn \/ MainReport
Spec == Init /\ [][Next]_vars

\* process_episodes_batch with any list of episodes, start_idx and batch_size
InitBatch ==
    /\ pc = "batch"
    /\ response = NoResponse /\ sm_i = 0 /\ sm_episodes = <<>> /\ sm_raised = FALSE
    /\ episodes \in SeqsUpTo(Episodes, MaxEpisodes)
    /\ start_idx \in 0..MaxEpisodes /\ batch_size \in 0..MaxEpisodes
    /\ idx = start_idx
    /\ all_books = <<>> /\ requests = <<>> /\ fetched = <<>>
    /\ di = 0 /\ dedup = NoDedup /\ unique_books = <<>> /\ books_without_asin = <<>>
    /\ csv = NoCsv /\ arg = "" /\ ret = NoneVal
NextBatch == BatchFetch \/ BatchReturn
SpecBatch == InitBatch /\ [][NextBatch]_vars

\* deduplicate_books with any list of occurrences
InitDedupWith(lists) ==
    /\ pc = "dedup"
    /\ response = NoResponse /\ sm_i = 0 /\ sm_episodes = <<>> /\ sm_raised = FALSE
    /\ episodes = <<>> /\ start_idx = 0 /\ batch_size = 0 /\ idx = 0
    /\ all_books \in lists /\ requests = <<>> /\ fetched = <<>>
    /\ di = 0 /\ dedup = NoDedup /\ unique_books = <<>> /\ books_without_asin = <<>>
    /\ csv = NoCsv /\ arg = "" /\ ret = NoneVal
InitDedup == InitDedupWith(SeqsUpTo(DedupInputs, MaxBooks))
NextDedup == DedupStep \/ DedupReturn
SpecDedup == InitDedup /\ [][NextDedup]_vars

\* deduplicate_books with a list followed by itself
InitTwice == InitDedupWith({L \o L : L \in SeqsUpTo(DedupInputs, MaxHalf)})
SpecTwice == InitTwice /\ [][NextDedup]_vars

\* deduplicate_books and generate_csv with occurrences that carry the episode and
\* occurrences that do not: fetch_and_extract_books(url) without episode_info
\* gives the title and the link only
BareOccurrences ==
    {[title |-> t, link |-> l] : t \in {"Sapiens", QuotedTitle}, l \in {LinkDp, LinkGp, LinkShort}}
CsvInputs ==
    BareOccurrences \cup {b \in DedupInputs : b.title = "Sapiens" /\ b.link # LinkOther}
     \cup {[b EXCEPT !.title = QuotedTitle] : b \in {o \in DedupInputs : o.title = "Sapiens" /\ o.link # LinkOther}}
InitCsv == InitDedupWith(SeqsUpTo(CsvInputs, MaxBooks))
NextCsv == DedupStep \/ DedupReturn \/ MainReport
SpecCsv == InitCsv /\ [][NextCsv]_vars

(***************************************************************************)
(* extract_asin, is_generic_title and fetch_and_extract_books called alone *)
(***************************************************************************)
InitCall(args) ==
    /\ pc = "call"
    /\ response = NoResponse /\ sm_i = 0 /\ sm_episodes = <<>> /\ sm_raised = FALSE
    /\ episodes = <<>> /\ start_idx = 0 /\ batch_size = 0 /\ idx = 0
    /\ all_books = <<>> /\ requests = <<>> /\ fetched = <<>>
    /\ di = 0 /\ dedup = NoDedup /\ unique_books = <<>> /\ books_without_asin = <<>>
    /\ csv = NoCsv /\ arg \in args /\ ret = NoneVal
UNCHANGED_program ==
    UNCHANGED <<sitemap_vars, episodes, batch_vars, all_books, dedup_vars, csv, arg>>

\* ''.join(strs)
Join(strs) == JoinRange(strs, 1, Len(strs))
RECURSIVE Repeat(_, _)
Repeat(s, n) ==
    IF n = 0 THEN "" ELSE IF n = 1 THEN s
    ELSE LET h == Repeat(s, n \div 2) IN h \o h \o (IF n % 2 = 1 THEN s ELSE "")

AsinDomains == {"https://www.amazon.in", "https://amzn.in"}
AsinSegments == {"/dp/B0ABCDEFGH", "/gp/product/0099590085", "/product/9780099590",
                 "/B00ID2ID2X/", "/B00ID2ID2X", "/dp/b0abcdefgh", "/Sapiens-Book", "/"}
AsinUrls == {d \o Join(segs) : d \in AsinDomains, segs \in SeqsUpTo(AsinSegments, MaxSegments)}

CallExtractAsin ==
    /\ pc = "call"
    /\ ret' = extract_asin(arg)
    /\ pc' = "returned"
    /\ UNCHANGED_program
InitAsin == InitCall(AsinUrls)
SpecAsin == InitAsin /\ [][CallExtractAsin]_vars

TitleWords == {"amazon", " link", "Amazon Link", "Amazon Book Link", "Buy Here", "buy ", " here",
               "1", "23", " ", "The Psychology of Money", "Amazon Link to Book", "Buy on ",
               "book", "click here", "On Amazon", "abcd"}
GenericInputs == {Join(ws) : ws \in SeqsUpTo(TitleWords, MaxWords)}

CallIsGenericTitle ==
    /\ pc = "call"
    /\ ret' = is_generic_title(arg)
    /\ pc' = "returned"
    /\ UNCHANGED_program
InitGeneric == InitCall(GenericInputs)
SpecGeneric == InitGeneric /\ [][CallIsGenericTitle]_vars

MarkupBefore == {"", "<p>Short. ", "<p>I recommend The Psychology of Money, see ",
                 "<p>" \o Repeat("x", 210) \o " "}
MarkupLink == {LinkDp,
               "<a href=\"" \o LinkDp \o "\">Sapiens</a>",
               "<a href=\"" \o LinkDp \o "\"> </a>",
               "<a href=\"" \o LinkDp \o "\">A  Brief\n History&nbsp;</a>",
               "<a href='" \o LinkDp \o "'>Sapiens</a>",
               "<a href=\"" \o LinkDp \o "\"><b>Sapiens</b></a>",
               "<a href=\"https://www.google.com/url?q=" \o LinkDp \o "&sa=D\">Homo Deus</a>"}
MarkupAfter == {"", " is a good book.</p>", " and <a href=\"" \o LinkDp \o "?ref=2\">Other</a>",
                " or also this very same book at " \o LinkDp}
Markups == {b \o l \o a : b \in MarkupBefore, l \in MarkupLink, a \in MarkupAfter}

CallExtractBooks ==
    /\ pc = "call"
    /\ \E books \in extract_books(arg, episode_of(Url9)[1]) : ret' = books
    /\ pc' = "returned"
    /\ UNCHANGED_program
InitExtract == InitCall(Markups)
SpecExtract == InitExtract /\ [][CallExtractBooks]_vars

(***************************************************************************)
(* Properties of deduplicate_books                                         *)
(***************************************************************************)
\* deduplicate_books(books), as a whole: its loop from the state st on
RECURSIVE dedup_from(_, _, _)
dedup_from(st, books, i) ==
    IF i > Len(books) THEN st ELSE dedup_from(dedup_step(st, books[i]), books, i + 1)
deduplicate_books(books) == dedup_from(NoDedup, books, 1)

InDedup == pc \in {"dedup", "dedup_done"}
\* the identifier of the i-th occurrence of the stream, NoneVal when it has none
AsinAt(i) == asin_of(all_books[i].link)
\* the occurrences consumed that carry the identifier a, in the order of the stream
Sightings(a) == SelectSeq(SubSeq(all_books, 1, di), LAMBDA b : asin_of(b.link) = a)
FirstSighting(a) == CHOOSE i \in 1..di : AsinAt(i) = a /\ \A j \in 1..(i - 1) : AsinAt(j) # a
IsPrefix(p, q) == Len(p) <= Len(q) /\ SubSeq(q, 1, Len(p)) = p

\* The two halves of C1.  The title of a record changes only from a generic title to the title, not
\* generic, of the occurrence being consumed, which carries the record's identifier;
\* a title that is not generic never changes; so a title changes at most once: it
\* is the first title of the identifier that is not generic, or, when there is none,
\* the first title.
C1_TitleStep ==
    pc = "dedup" =>
        \A k \in DOMAIN dedup.asin_map :
            LET old == dedup.asin_map[k].title
                new == dedup'.asin_map[k].title IN
            /\ ~generic(old) => new = old
            /\ new # old => /\ generic(old) /\ ~generic(new)
                            /\ new = all_books[di + 1].title
                            /\ AsinAt(di + 1) = dedup.asin_map[k].asin
C1_TitleState ==
    InDedup =>
        \A k \in DOMAIN dedup.asin_map :
            LET seen == Sightings(dedup.asin_map[k].asin)
                good == {i \in DOMAIN seen : ~generic(seen[i].title)} IN
            dedup.asin_map[k].title =
                IF good = {} THEN seen[1].title
                ELSE seen[CHOOSE i \in good : \A j \in good : i <= j].title
\* C1: in every step and in every state of deduplicate_books a title moves one way
\* only, from generic to not generic, and so at most once.
C1_TitleOneWay == [][C1_TitleStep]_vars /\ []C1_TitleState
\* a generic title upgraded by the second sighting and kept at the third, whose
\* title is another one
C1_Witness ==
    /\ pc = "dedup" /\ di = 3
    /\ \E k \in DOMAIN dedup.asin_map :
        /\ Len(dedup.asin_map[k].episodes) = 3
        /\ generic(all_books[1].title)
        /\ ~generic(all_books[2].title)
        /\ all_books[3].title # all_books[2].title
        /\ dedup.asin_map[k].title = all_books[2].title

\* C2: after any prefix of the stream the canonical set holds one record for each
\* identifier resolved in the prefix and no other, the identifier of a record is
\* that of its link, the records are in the order of the first sightings, and the
\* list returned is this one.
C2_OneRecordPerAsin ==
    InDedup =>
        LET m == dedup.asin_map IN
        /\ \A j, k \in DOMAIN m : j # k => m[j].asin # m[k].asin
        /\ {m[k].asin : k \in DOMAIN m} = {AsinAt(i) : i \in 1..di} \ {NoneVal}
        /\ \A k \in DOMAIN m : m[k].asin = asin_of(m[k].link)
        /\ \A j, k \in DOMAIN m : j < k => FirstSighting(m[j].asin) < FirstSighting(m[k].asin)
        /\ pc = "dedup_done" => unique_books = m
\* two records from three occurrences, one identifier seen under two links
C2_Witness ==
    /\ pc = "dedup_done" /\ di = 3 /\ Len(unique_books) = 2
    /\ \E i, j \in 1..3 : AsinAt(i) = AsinAt(j) /\ all_books[i].link # all_books[j].link

\* The two halves of C3.  The episode list of a record is, after any prefix of the stream, the
\* provenance of the sightings of its identifier, one entry for each sighting in
\* the order of the stream; a step leaves the entries there are and appends.
C3_EpisodeState ==
    InDedup =>
        \A k \in DOMAIN dedup.asin_map :
            LET seen == Sightings(dedup.asin_map[k].asin) IN
            dedup.asin_map[k].episodes = [i \in DOMAIN seen |-> provenance(seen[i])]
C3_EpisodeStep ==
    pc = "dedup" =>
        \A k \in DOMAIN dedup.asin_map :
            /\ k \in DOMAIN dedup'.asin_map
            /\ IsPrefix(dedup.asin_map[k].episodes, dedup'.asin_map[k].episodes)
\* C3: in every state the episode lists are the provenance of the sightings, in the
\* order of the stream, and every step only appends to them.
C3_EpisodesAppendOnly == []C3_EpisodeState /\ [][C3_EpisodeStep]_vars
\* an episode recorded twice for a book, then another episode
C3_Witness ==
    /\ pc = "dedup" /\ di = 3
    /\ \E k \in DOMAIN dedup.asin_map :
        LET eps == dedup.asin_map[k].episodes IN
        Len(eps) = 3 /\ eps[1] = eps[2] /\ eps[3] # eps[1]

\* C6: deduplicate_books(L ++ L) returns the records of deduplicate_books(L), with
\* the same identifiers, titles and links in the same order, each episode list
\* being that of L followed by itself.
C6_TwiceSameRecords ==
    pc = "dedup_done" =>
        LET L == SubSeq(all_books, 1, Len(all_books) \div 2)
            once == deduplicate_books(L).asin_map IN
        /\ all_books = L \o L
        /\ Len(unique_books) = Len(once)
        /\ \A k \in DOMAIN once :
            /\ unique_books[k].asin = once[k].asin
            /\ unique_books[k].title = once[k].title
            /\ unique_books[k].link = once[k].link
            /\ unique_books[k].episodes = once[k].episodes \o once[k].episodes
\* a title upgraded while the first copy was consumed
C6_Witness ==
    /\ pc = "dedup_done" /\ Len(all_books) = 4
    /\ \E k \in DOMAIN unique_books :
        /\ Len(unique_books[k].episodes) = 4
        /\ generic(all_books[1].title)
        /\ unique_books[k].title = all_books[2].title
        /\ ~generic(unique_books[k].title)

(***************************************************************************)
(* Properties of process_episodes_batch                                    *)
(***************************************************************************)
\* the occurrences of the first n fetches, those that succeeded, in order
RECURSIVE BooksOfFetched(_, _)
BooksOfFetched(f, n) ==
    IF n = 0 THEN <<>>
    ELSE BooksOfFetched(f, n - 1) \o (IF f[n].ok THEN f[n].books ELSE <<>>)
AtLeastZero(n) == IF n > 0 THEN n ELSE 0

\* The two halves of C4.  After any number of iterations the pages requested are
\* those of the episodes start_idx, start_idx + 1, ... in this order, one request
\* for each index; a failed fetch gave no occurrence, a fetch that succeeded gave a
\* list that fetch_and_extract_books can return for that episode; all_books is the
\* concatenation, in order, of the lists of the fetches that succeeded; and at the
\* return every index below end_idx has been requested.
C4_BatchState ==
    pc \in {"batch", "batch_done"} =>
        LET n == Len(requests) IN
        /\ Len(fetched) = n
        /\ n = AtLeastZero(idx - start_idx)
        /\ \A k \in 1..n :
            /\ requests[k] = episodes[start_idx + k].url
            /\ ~fetched[k].ok => fetched[k].books = <<>>
            /\ fetched[k].ok =>
                fetched[k].books \in extract_books(fetched[k].html, episodes[start_idx + k])
        /\ all_books = BooksOfFetched(fetched, n)
        /\ pc = "batch_done" => n = AtLeastZero(end_idx - start_idx)
\* An iteration makes one request and keeps what was gathered before it.
C4_BatchStep ==
    pc = "batch" =>
        /\ IsPrefix(all_books, all_books')
        /\ IsPrefix(requests, requests')
        /\ Len(requests') <= Len(requests) + 1
\* C4: every episode of the batch is fetched exactly once, in ascending order of
\* index, whatever fetches fail; a failed fetch contributes nothing and discards
\* nothing; the list returned is the concatenation, in order, of the occurrences
\* of the episodes whose fetch succeeded.
C4_BatchTolerant == []C4_BatchState /\ [][C4_BatchStep]_vars
\* a failed fetch between two fetches that gave occurrences
C4_Witness ==
    /\ pc = "batch_done" /\ Len(fetched) = 3
    /\ fetched[1].ok /\ fetched[1].books # <<>>
    /\ ~fetched[2].ok
    /\ fetched[3].ok /\ fetched[3].books # <<>>
    /\ all_books = fetched[1].books \o fetched[3].books

(***************************************************************************)
(* Properties of fetch_sitemap and of the driver's check of its result     *)
(***************************************************************************)
\* C5: once fetch_sitemap has failed, the list it returns is empty, whatever it
\* had collected, and the driver goes from its check to exit(1) and stops there:
\* no episode page is requested, deduplicate_books does not run, nothing is
\* written.
C5_SitemapFailureAborts ==
    sm_raised =>
        /\ episodes = <<>>
        /\ pc \in {"main_check", "exit"}
        /\ pc = "main_check" => ENABLED MainCheck
        /\ pc = "exit" => ~ENABLED Next
        /\ requests = <<>> /\ fetched = <<>> /\ all_books = <<>>
        /\ di = 0 /\ dedup = NoDedup /\ unique_books = <<>> /\ books_without_asin = <<>>
        /\ csv = NoCsv
\* the failure came after an episode descriptor had been collected
C5_Witness ==
    /\ pc = "exit" /\ sm_raised
    /\ \E j \in 1..sm_i :
        /\ response.urls[j].loc /\ response.urls[j].text # NoneVal
        /\ episode_of(response.urls[j].text) # <<>>

(***************************************************************************)
(* Properties of extract_asin                                              *)
(***************************************************************************)
\* ten characters of A-Z and 0-9 from the position q on
HasId(url, q) == q + 9 <= Len(url) /\ \A i \in q..(q + 9) : Char(url, i) \in AsinClass
IdAt(url, q) == SubSeq(url, q, q + 9)
StartsAt(url, p, lit) == p + Len(lit) - 1 <= Len(url) /\ SubSeq(url, p, p + Len(lit) - 1) = lit
ShapePrefixes == <<"/dp/", "/gp/product/", "/product/">>
\* the positions of the identifiers that the k-th shape finds in the url
PathShapeIds(url, k) ==
    {p + Len(ShapePrefixes[k]) : p \in {r \in 1..Len(url) :
        StartsAt(url, r, ShapePrefixes[k]) /\ HasId(url, r + Len(ShapePrefixes[k]))}}
\* "amazon.", characters other than "/", at least one, then "/", the identifier, "/"
BareShapeIds(url) ==
    {q \in 1..Len(url) :
        /\ HasId(url, q) /\ StartsAt(url, q + 10, "/") /\ StartsAt(url, q - 1, "/")
        /\ \E p \in 1..(q - 9) :
            /\ StartsAt(url, p, "amazon.")
            /\ \A i \in (p + 7)..(q - 2) : Char(url, i) # "/"}
ShapeIds(url, k) == IF k <= 3 THEN PathShapeIds(url, k) ELSE BareShapeIds(url)
LeastOf(S) == CHOOSE x \in S : \A y \in S : x <= y
\* the identifier of the first shape, in the order of the four, found in the url
FirstShapeId(url) ==
    LET found == {k \in 1..4 : ShapeIds(url, k) # {}} IN
    IF found = {} THEN NoneVal ELSE IdAt(url, LeastOf(ShapeIds(url, LeastOf(found))))

\* C7: extract_asin returns the identifier of the first of the four shapes, in the
\* order /dp/, /gp/product/, /product/, bare domain, that is found anywhere in the
\* url, wherever the shapes are found; with a /dp/ identifier in the url the result
\* is a /dp/ identifier; with no shape found the result is None.
C7_FirstShapeWins ==
    pc = "returned" =>
        /\ ret = FirstShapeId(arg)
        /\ PathShapeIds(arg, 1) # {} => ret \in {IdAt(arg, q) : q \in PathShapeIds(arg, 1)}
        /\ (\A k \in 1..4 : ShapeIds(arg, k) = {}) => ret = NoneVal
\* the bare-domain shape is found before the /dp/ shape, with another identifier
C7_Witness ==
    /\ pc = "returned"
    /\ PathShapeIds(arg, 1) # {} /\ BareShapeIds(arg) # {}
    /\ LeastOf(BareShapeIds(arg)) < LeastOf(PathShapeIds(arg, 1))
    /\ IdAt(arg, LeastOf(BareShapeIds(arg))) # ret
    /\ ret = IdAt(arg, LeastOf(PathShapeIds(arg, 1)))

(***************************************************************************)
(* Properties of is_generic_title                                          *)
(***************************************************************************)
Contains(s, sub) == \E p \in 1..Len(s) : StartsAt(s, p, sub)
AllDigits(s) == Len(s) > 0 /\ \A i \in 1..Len(s) : Char(s, i) \in Digits
GenericPhrases == {"amazon book link", "buy here", "on amazon", "here", "click here",
                   "link", "book", "amazon"}
\* the classification as the specification words it
StatedGeneric(title) ==
    LET t == Strip(Lower(title)) IN
    \/ t \in GenericPhrases
    \/ AllDigits(t)
    \/ Contains(t, "amazon link")
    \/ Len(t) < 5

\* C8: is_generic_title(t) is true exactly when the title, in lower case and
\* trimmed, is one of the fixed phrases, or is made of digits only, or contains
\* "amazon link" anywhere, or is shorter than 5 characters.
C8_GenericExactly == pc = "returned" => ret = StatedGeneric(arg)
\* the examples of the specification are classified as it says
C8_Examples ==
    /\ is_generic_title("1") /\ is_generic_title("here") /\ is_generic_title("Buy Here")
    /\ is_generic_title("Amazon Link to Book")
    /\ ~is_generic_title("The Psychology of Money")
\* "amazon link" after the start of the title: stated generic, returned not generic
C8_Witness ==
    /\ pc = "returned" /\ arg = "Buy on Amazon Link"
    /\ StatedGeneric(arg) /\ ret = FALSE

(***************************************************************************)
(* Properties of the order of the occurrences given to deduplicate_books   *)
(***************************************************************************)
\* a list without the elements that it holds already
RECURSIVE KeepFirst(_, _)
KeepFirst(seq, i) ==
    IF i = 0 THEN <<>>
    ELSE LET r == KeepFirst(seq, i - 1) IN IF seq[i] \in Range(r) THEN r ELSE Append(r, seq[i])
\* the links of a page in the order in which the markup is found to hold them
Discovered(html) ==
    LET found == amzn_matches(html) \o google_matches(html) IN KeepFirst(found, Len(found))
DiscoveryTable == [html \in Pages |-> Discovered(html)]
LinksOf(books) == [i \in DOMAIN books |-> books[i].link]
AfterSitemap == pc \notin {"fetch_sitemap", "sitemap_loop"}

\* the episodes are in ascending order of the number, as an integer, and are
\* fetched in this order
EpisodesAscending ==
    AfterSitemap =>
        /\ \A i, j \in DOMAIN episodes :
            i < j => StrToInt(episodes[i].episode_num) <= StrToInt(episodes[j].episode_num)
        /\ \A k \in DOMAIN requests : requests[k] = episodes[k].url
        /\ all_books = BooksOfFetched(fetched, Len(fetched))
\* a record has the link of the first occurrence of its identifier in the stream,
\* and its title unless a later title has replaced a generic one
CreatedFromFirst ==
    InDedup =>
        \A k \in DOMAIN dedup.asin_map :
            LET first == all_books[FirstSighting(dedup.asin_map[k].asin)] IN
            /\ dedup.asin_map[k].link = first.link
            /\ \/ dedup.asin_map[k].title = first.title
               \/ generic(first.title) /\ ~generic(dedup.asin_map[k].title)
\* a record is created with the title and the link of the occurrence consumed
CreatedStep ==
    pc = "dedup" /\ Len(dedup'.asin_map) > Len(dedup.asin_map) =>
        LET created == dedup'.asin_map[Len(dedup'.asin_map)] IN
        /\ Len(dedup'.asin_map) = Len(dedup.asin_map) + 1
        /\ created.title = all_books[di + 1].title
        /\ created.link = all_books[di + 1].link

\* C9, as the specification states it: the stream is in ascending order of the
\* episode number and, within a page, in the order of discovery of the links in
\* the markup, and a record is created from the first occurrence in that order.
C9_DiscoveryOrder ==
    /\ EpisodesAscending
    /\ \A k \in DOMAIN fetched :
        fetched[k].ok => LinksOf(fetched[k].books) = DiscoveryTable[fetched[k].html]
    /\ CreatedFromFirst

\* the occurrences of a page: every link of the page once, with the episode of
\* the page, in ascending order of the title
C9_PageByTitle ==
    \A k \in DOMAIN fetched :
        fetched[k].ok =>
            LET b == fetched[k].books IN
            /\ Len(b) = Len(DiscoveryTable[fetched[k].html])
            /\ Range(LinksOf(b)) = Range(DiscoveryTable[fetched[k].html])
            /\ \A i, j \in DOMAIN b : i < j => StrLeq(b[i].title, b[j].title)
            /\ \A i \in DOMAIN b : b[i].episode_url = episodes[k].url
\* C9, amended: the stream is in ascending order of the episode number and, within
\* a page, in ascending order of the title (not of discovery; links with one title
\* in any order); a record is created with the title and the link of the first
\* occurrence of its identifier in the stream.
C9_TitleOrderWithinPage ==
    /\ [](EpisodesAscending /\ C9_PageByTitle /\ CreatedFromFirst)
    /\ [][CreatedStep]_vars
\* the sitemap lists episode 10 before episode 9; the page of episode 9 is fetched
\* first, and its link discovered second gives the first record
C9_Witness ==
    /\ pc = "dedup_done"
    /\ Len(response.urls) = 2
    /\ response.urls[1].text = Url10 /\ response.urls[2].text = Url9
    /\ Len(fetched) = 2 /\ fetched[1].ok /\ fetched[1].html = PageTwo
    /\ requests = <<Url9, Url10>>
    /\ DiscoveryTable[PageTwo] = <<LinkDp, LinkOther>>
    /\ LinksOf(fetched[1].books) = <<LinkOther, LinkDp>>
    /\ unique_books[1].link = LinkOther /\ unique_books[1].title = "Homo Deus"

(***************************************************************************)
(* Properties of the title that fetch_and_extract_books gives to a link    *)
(***************************************************************************)
\* the text of an anchor whose destination contains the link, when its inner text
\* is not empty once collapsed and trimmed
HasAnchorText(html, link) ==
    /\ ReSearch(title_pattern(link), html, TRUE).ok
    /\ anchor_title(html, link) # ""
FirstOccurrence(html, link) == LeastOf({p \in 1..Len(html) : StartsAt(html, p, link)})
\* the text before the first occurrence of the link: at most 200 characters, none
\* of them < or >
TextBefore(html, link) ==
    LET p == FirstOccurrence(html, link)
        from == LeastOf({q \in 1..p : /\ p - q <= 200
                                      /\ \A i \in q..(p - 1) : Char(html, i) \notin {"<", ">"}}) IN
    SubSeq(html, from, p - 1)
\* the title by the priority that the specification states
StatedTitle(html, link) ==
    IF HasAnchorText(html, link) THEN anchor_title(html, link)
    ELSE nearby_title(TextBefore(html, link))

\* C10: the title of every link is the text of an anchor to the link when there is
\* one with a text that is not empty, otherwise the fragment closest to the link,
\* of more than 10 and less than 200 characters, of the text before the first
\* occurrence of the link, otherwise the placeholder; it is never empty.
C10_TitlePriority ==
    pc = "returned" =>
        \A i \in DOMAIN ret :
            /\ ret[i].title # ""
            /\ ret[i].title = StatedTitle(arg, ret[i].link)
\* an anchor whose text is one space: the title returned is empty
C10_Witness ==
    /\ pc = "returned"
    /\ arg = "<a href=\"" \o LinkDp \o "\"> </a>"
    /\ Len(ret) = 1 /\ ret[1].link = LinkDp /\ ret[1].title = ""

(***************************************************************************)
(* Properties of generate_csv on what deduplicate_books returns            *)
(***************************************************************************)
\* the episode numbers that are there, in the order of the episode list
PresentNums(eps) ==
    SelectSeq([j \in DOMAIN eps |-> eps[j].episode_num], LAMBDA n : n # NoneVal)
RECURSIVE JoinSemi(_)
JoinSemi(nums) ==
    IF nums = <<>> THEN ""
    ELSE IF Len(nums) = 1 THEN nums[1]
    ELSE JoinSemi(SubSeq(nums, 1, Len(nums) - 1)) \o ";" \o nums[Len(nums)]
\* the pairs (record, entry of its episode list), by record and then by entry
RECURSIVE PairsFrom(_, _)
PairsFrom(books, i) ==
    IF i > Len(books) THEN <<>>
    ELSE [j \in DOMAIN books[i].episodes |-> <<i, j>>] \o PairsFrom(books, i + 1)
Reported == pc \in {"done", "raised"} /\ unique_books # <<>>
\* the two views are the ones stated
ViewsAsStated ==
    /\ pc = "done"
    /\ Len(csv.unique) = Len(unique_books)
    /\ \A i \in DOMAIN csv.unique :
        /\ csv.unique[i].asin = unique_books[i].asin
        /\ csv.unique[i].episode_count = Len(unique_books[i].episodes)
        /\ csv.unique[i].episode_nums = JoinSemi(PresentNums(unique_books[i].episodes))
    /\ LET pairs == PairsFrom(unique_books, 1) IN
       /\ Len(csv.expanded) = Len(pairs)
       /\ \A k \in DOMAIN csv.expanded :
            LET book == unique_books[pairs[k][1]] IN
            /\ csv.expanded[k].asin = book.asin
            /\ csv.expanded[k].episode_num = book.episodes[pairs[k][2]].episode_num
            /\ csv.expanded[k].episode_url = csv_quote(book.episodes[pairs[k][2]].episode_url)

\* C11: for every list, not empty, that deduplicate_books returns, records without
\* episode provenance included, generate_csv completes, the unique view has one row
\* for each record, with the length of its episode list and the episode numbers
\* that are there joined, and the expanded view has one row for each pair of a
\* record and an entry of its episode list, by record and then by entry.
C11_CsvViews == Reported => ViewsAsStated
\* the same, for the lists in which every occurrence carries its episode
C11_ViewsWithProvenance ==
    Reported /\ (\A i \in DOMAIN all_books : "episode_num" \in DOMAIN all_books[i]) =>
        ViewsAsStated
\* a record of two occurrences, the second without its episode: the unique view
\* is written, with the count 2 and the one number, and the expanded view is not
C11_Witness ==
    /\ pc = "raised"
    /\ Len(unique_books) = 1 /\ Len(unique_books[1].episodes) = 2
    /\ unique_books[1].episodes[1].episode_num = "9"
    /\ unique_books[1].episodes[2].episode_num = NoneVal
    /\ csv.unique[1].episode_count = 2 /\ csv.unique[1].episode_nums = "9"
    /\ csv.expanded = <<>>

(***************************************************************************)
(* Properties of the accounting of deduplicate_books                       *)
(***************************************************************************)
RECURSIVE EpisodeEntries(_, _)
EpisodeEntries(asin_map, k) ==
    IF k = 0 THEN 0 ELSE EpisodeEntries(asin_map, k - 1) + Len(asin_map[k].episodes)
\* the occurrences consumed that have no identifier, in the order of the stream
PlainSoFar == SelectSeq(SubSeq(all_books, 1, di), LAMBDA b : asin_of(b.link) = NoneVal)
AfterDedupStart == pc \in {"dedup", "dedup_done", "done", "raised"}

\* The two halves of C12.  After any prefix of the stream: the no-identifier list
\* is the occurrences without identifier, unchanged, each once, in their order;
\* every record has as many episode entries as its identifier has sightings, and
\* no two records share an identifier; so the occurrences consumed are as many
\* as the episode entries and the no-identifier list together, and the count of
\* duplicates removed is not negative.
C12_AccountState ==
    AfterDedupStart =>
        LET m == dedup.asin_map
            plain == dedup.books_without_asin IN
        /\ plain = PlainSoFar
        /\ \A k \in DOMAIN m :
            /\ Len(m[k].episodes) = Len(Sightings(m[k].asin))
            /\ Len(m[k].episodes) >= 1
        /\ \A j, k \in DOMAIN m : j # k => m[j].asin # m[k].asin
        /\ di = EpisodeEntries(m, Len(m)) + Len(plain)
        /\ di - Len(m) - Len(plain) >= 0
        /\ pc # "dedup" =>
            /\ di = Len(all_books)
            /\ unique_books = m /\ books_without_asin = plain
            /\ Len(all_books) - Len(unique_books) - Len(books_without_asin) >= 0
\* An iteration puts the occurrence in one place: one more episode entry in one
\* record, or the occurrence itself at the end of the no-identifier list.
C12_AccountStep ==
    pc = "dedup" /\ di' = di + 1 =>
        LET book == all_books[di + 1]
            m == dedup.asin_map
            n == dedup'.asin_map IN
        \/ /\ dedup'.books_without_asin = Append(dedup.books_without_asin, book)
           /\ n = m
        \/ /\ dedup'.books_without_asin = dedup.books_without_asin
           /\ \E k \in DOMAIN n :
                /\ Len(n[k].episodes) = (IF k \in DOMAIN m THEN Len(m[k].episodes) ELSE 0) + 1
                /\ n[k].episodes[Len(n[k].episodes)] = provenance(book)
                /\ \A j \in DOMAIN n \ {k} : j \in DOMAIN m /\ n[j].episodes = m[j].episodes
====
